---- MODULE Spec2Model ----
(***************************************************************************)
(* Model of Distillation/Ideal_distillation/mccabe_thiele.py:              *)
(* Ideal_Distillation.plot_mccabe_thiele (the McCabe-Thiele staircase      *)
(* construction) followed by Ideal_Distillation.show_design_summary, as    *)
(* the module script calls them.                                           *)
(*                                                                         *)
(* Numbers.  The program computes in binary floating point: every          *)
(* arithmetic operation rounds its result to the nearest representable     *)
(* number.  The model keeps that structure at a lower precision: a real r  *)
(* is the integer round(r * Scale), and every product and quotient of the  *)
(* source is one rounded operation (Mul, Div) here, in the order the       *)
(* source evaluates them.                                                  *)
(*                                                                         *)
(* scipy.optimize.fsolve is library code.  It is modelled by its contract: *)
(* the root of the function it is given when there is one, and otherwise   *)
(* (no root: the function is a non-zero constant) the starting estimate,   *)
(* returned to the caller like any other result - fsolve only issues a     *)
(* warning, it raises nothing.  fsolve_converged records whether every     *)
(* call so far found a root; the program itself never looks at it.         *)
(***************************************************************************)
EXTENDS Integers, Sequences, FiniteSets

\* ------------------------------------------------------------- bounds --
\* Units per 1.0 of the fixed-point numbers.
Scale == 1000
\* The loops run while fewer than MaxPoints points are recorded.
MaxPoints == 49

\* --------------------------------------------------------- arithmetic --
Abs(a) == IF a < 0 THEN -a ELSE a

\* a * b, rounded to the nearest unit.
Mul(a, b) == (a * b + Scale \div 2) \div Scale

\* a / b (b # 0), rounded to the nearest unit.
Div(a, b) ==
  IF b > 0 THEN (a * Scale + b \div 2) \div b
  ELSE ((-a) * Scale + (-b) \div 2) \div (-b)

\* n / d as a number of the model.
Frac(n, d) == (n * Scale) \div d

\* 10^(k/10), 10^(k/100), 10^(k/1000) for a digit k, in thousandths.
Pow10Tenths == <<1000, 1259, 1585, 1995, 2512, 3162, 3981, 5012, 6310, 7943>>
Pow10Hundredths == <<1000, 1023, 1047, 1072, 1096, 1122, 1148, 1175, 1202, 1230>>
Pow10Thousandths == <<1000, 1002, 1005, 1007, 1009, 1012, 1014, 1016, 1019, 1021>>

RECURSIVE Pow10Int(_, _)
\* v * 10^i for an integer i.
Pow10Int(v, i) ==
  IF i = 0 THEN v
  ELSE IF i > 0 THEN Pow10Int(v * 10, i - 1)
  ELSE Pow10Int((v + 5) \div 10, i + 1)

\* 10 ** e: the digits of e's fractional part select the three factors.
Pow10(e) ==
  LET i == e \div Scale
      f == ((e % Scale) * 1000) \div Scale
      m == Frac(Pow10Tenths[(f \div 100) + 1], 1000)
      h == Frac(Pow10Hundredths[((f \div 10) % 10) + 1], 1000)
      t == Frac(Pow10Thousandths[(f % 10) + 1], 1000)
  IN Pow10Int(Mul(Mul(m, h), t), i)

\* ------------------------------------------------------------ program --
VARIABLES
  antoine, T, xd, xb, xf, q, reflux_factor,
  alpha, intersection_q_and_VLE, intersection_y,
  reflux_ratio, reflux_ratio_is_array,
  x_upper, y_upper, stripping_slope, b,
  stripping_condition, rectifying_condition,
  seesaw_points_x, seesaw_points_y, x_start, y_start, vle_point,
  number_of_stages, fsolve_converged, pc

inputs == <<antoine, T, xd, xb, xf, q, reflux_factor>>
design == <<alpha, intersection_q_and_VLE, intersection_y, reflux_ratio,
            reflux_ratio_is_array, x_upper, y_upper, stripping_slope>>
vars == <<antoine, T, xd, xb, xf, q, reflux_factor,
          alpha, intersection_q_and_VLE, intersection_y,
          reflux_ratio, reflux_ratio_is_array,
          x_upper, y_upper, stripping_slope, b,
          stripping_condition, rectifying_condition,
          seesaw_points_x, seesaw_points_y, x_start, y_start, vle_point,
          number_of_stages, fsolve_converged, pc>>

\* P_vap = 10 ** (a - b / (T + c)) for one Antoine triple <<a, b, c>>.
VaporPressure(i, temp) == Pow10(i[1] - Div(i[2], temp + i[3]))

Max2(u, v) == IF u >= v THEN u ELSE v
Min2(u, v) == IF u <= v THEN u ELSE v

\* alpha = max(P_vap) / min(P_vap)
RelativeVolatility(ant, temp) ==
  LET p1 == VaporPressure(ant[1], temp)
      p2 == VaporPressure(ant[2], temp)
  IN Div(Max2(p1, p2), Min2(p1, p2))

\* The equilibrium line: alpha*x / (1 + (alpha-1)*x).
VLE(al, x) == Div(Mul(al, x), Scale + Mul(al - Scale, x))

\* The q line: -q/(1-q)*x + xf/(1-q)   (q # 1).
QLineSlope(qq) == Div(-qq, Scale - qq)
QLineIntercept(qq, f) == Div(f, Scale - qq)
QLine(qq, f, x) == Mul(QLineSlope(qq), x) + QLineIntercept(qq, f)

\* The rectifying line: (R/(1+R))*x + (1/(1+R))*xd.
RectSlope(R) == Div(R, Scale + R)
RectIntercept(R, d) == Mul(Div(Scale, Scale + R), d)
RectifyingLine(R, d, x) == Mul(RectSlope(R), x) + RectIntercept(R, d)

\* fsolve on the linear function slope*x + intercept, started at x0.
FsolveLinear(slope, intercept, x0) ==
  IF slope = 0
    THEN [x |-> x0, converged |-> intercept = 0]
    ELSE [x |-> Div(-intercept, slope), converged |-> TRUE]

RECURSIVE Bisect(_, _, _, _, _)
\* The sign change of VLE - QLine between lo and hi (the signs differ there).
Bisect(al, qq, f, lo, hi) ==
  IF hi - lo <= 1
    THEN IF Abs(VLE(al, lo) - QLine(qq, f, lo)) <= Abs(VLE(al, hi) - QLine(qq, f, hi))
           THEN lo ELSE hi
    ELSE LET mid == (lo + hi) \div 2
             neg(x) == VLE(al, x) - QLine(qq, f, x) < 0
         IN IF neg(mid) = neg(lo) THEN Bisect(al, qq, f, mid, hi)
                                  ELSE Bisect(al, qq, f, lo, mid)

\* fsolve on VLE(x) - QLine(x), started at xf: the intersection in [0, 1].
FsolveQLineVLE(al, qq, f) ==
  [x |-> Bisect(al, qq, f, 0, Scale), converged |-> TRUE]

\* Lines 79-83: the intersection of the q line and the equilibrium line.
IntersectionQAndVLE(al, qq, f) ==
  IF qq = Scale THEN [x |-> f, converged |-> TRUE]
                ELSE FsolveQLineVLE(al, qq, f)

\* A feasibility check that tests the distillate side only.
InfeasibleAboveOnly(iy, ix, d, bm) == iy > d

\* Lines 87-90: the two checks that raise ValueError.
Infeasible(iy, ix, d, bm) == iy > d \/ ix < bm

\* Line 93.
MinimumReflux(al, ix, d) ==
  Div(Div(d, ix) - Mul(al, Div(Scale - d, Scale - ix)), al - Scale)

\* Lines 103-106: where the rectifying line meets the q line.
XUpper(R, d, qq, f) ==
  IF qq = Scale THEN [x |-> f, converged |-> TRUE]
  ELSE FsolveLinear(RectSlope(R) - QLineSlope(qq),
                    RectIntercept(R, d) - QLineIntercept(qq, f), f)

\* Lines 138, 169: the x at which the rectifying line is at height y.
RectifyingX(R, d, y, x0) ==
  FsolveLinear(RectSlope(R), RectIntercept(R, d) - y, x0)

\* A stage count that counts every vertical step, the last one included.
NumberOfStagesAllRisers(n) == Div((n - 1) * Scale, 2 * Scale)

\* Line 174: (len(seesaw_points_x)-1)/2 - 1, a true division.
NumberOfStages(n) == Div((n - 1) * Scale, 2 * Scale) - Scale

\* Lines 52-86: alpha, the intersection of the q line and the equilibrium
\* line, and the equilibrium value there.
Pinch(ant, temp, qq, f) ==
  LET al == RelativeVolatility(ant, temp)
      ix == IntersectionQAndVLE(al, qq, f)
  IN [alpha |-> al, x |-> ix.x, y |-> VLE(al, ix.x), converged |-> ix.converged]

\* Lines 92-110: the reflux ratio, the upper end of the stripping line and
\* the stripping line, for a design that passed the feasibility check.
OperatingLines(pin, d, bm, qq, f, rf) ==
  LET R  == Mul(MinimumReflux(pin.alpha, pin.x, d), rf)
      xu == XUpper(R, d, qq, f)
      yu == RectifyingLine(R, d, xu.x)
      sl == Div(yu - bm, xu.x - bm)
  IN [reflux_ratio |-> R, x_upper |-> xu.x, y_upper |-> yu,
      stripping_slope |-> sl, b |-> bm - Mul(sl, bm), converged |-> xu.converged]

\* Lines 128-174 as a function of the design: the two loops run from
\* x, and the result is the stage count (done), or not done when MaxPoints
\* points are recorded with a loop still running.
RECURSIVE Staircase(_, _, _, _, _, _, _, _)
Staircase(al, d, f, ol, stripping, x, n, conv) ==
  LET v == VLE(al, x)
  IN IF n >= MaxPoints THEN [done |-> FALSE, stages |-> 0, converged |-> conv]
     ELSE IF stripping
       THEN IF v > ol.y_upper
              THEN LET r == RectifyingX(ol.reflux_ratio, d, v, f)
                   IN Staircase(al, d, f, ol, FALSE, r.x, n + 2, conv /\ r.converged)
              ELSE Staircase(al, d, f, ol, TRUE,
                             Div(v - ol.b, ol.stripping_slope), n + 2, conv)
       ELSE IF v > d
              THEN [done |-> TRUE, stages |-> NumberOfStages(n + 2), converged |-> conv]
              ELSE LET r == RectifyingX(ol.reflux_ratio, d, v, v)
                   IN Staircase(al, d, f, ol, FALSE, r.x, n + 2, conv /\ r.converged)

\* plot_mccabe_thiele on the inputs of this run with reflux factor rf, for a
\* design that passes the feasibility check.
RunWithRefluxFactor(rf) ==
  LET pin == Pinch(antoine, T, q, xf)
      ol  == OperatingLines(pin, xd, xb, q, xf, rf)
  IN Staircase(pin.alpha, xd, xf, ol, TRUE, xb, 1, pin.converged /\ ol.converged)

\* ------------------------------------------------------------- inputs --
\* [[a, b, c], [a, b, c]]: the script's pair (line 243) and benzene/toluene.
AntoineSets ==
  { << <<Frac(4356, 1000), Frac(1175581, 1000), Frac(-2071, 1000)>>,
       <<Frac(4028, 1000), Frac(1268636, 1000), Frac(-56199, 1000)>> >>,
    << <<Frac(4726, 1000), Frac(1660652, 1000), Frac(-1461, 1000)>>,
       <<Frac(4078, 1000), Frac(1343943, 1000), Frac(-53773, 1000)>> >> }
Temperatures == {Frac(350, 1)}
BottomFractions == {Frac(1, 10), Frac(3, 20)}
FeedFractions == {Frac(9, 20), Frac(1, 2)}
DistillateFractions == {Frac(11, 20), Frac(7, 10), Frac(99, 100), Frac(1, 1)}
FeedQualities == {Frac(1, 1), Frac(1, 2), 0, Frac(-1, 1)}
RefluxFactors == {0, Frac(1, 2), Frac(11, 10), Frac(3, 2), Frac(2, 1), Frac(3, 1)}

Init ==
  /\ antoine \in AntoineSets
  /\ T \in Temperatures
  /\ xd \in DistillateFractions
  /\ xb \in BottomFractions
  /\ xf \in FeedFractions
  /\ q \in FeedQualities
  /\ reflux_factor \in RefluxFactors
  /\ alpha = 0
  /\ intersection_q_and_VLE = 0
  /\ intersection_y = 0
  /\ reflux_ratio = 0
  /\ reflux_ratio_is_array = FALSE
  /\ x_upper = 0
  /\ y_upper = 0
  /\ stripping_slope = 0
  /\ b = 0
  /\ stripping_condition = FALSE
  /\ rectifying_condition = FALSE
  /\ seesaw_points_x = <<>>
  /\ seesaw_points_y = <<>>
  /\ x_start = 0
  /\ y_start = 0
  /\ vle_point = 0
  /\ number_of_stages = 0
  /\ fsolve_converged = TRUE
  /\ pc = "call"

\* Lines 52-90: a design that fails the feasibility check: ValueError is
\* raised before anything else is computed.
RaiseInfeasible ==
  LET pin == Pinch(antoine, T, q, xf)
  IN /\ pc = "call"
     /\ Infeasible(pin.y, pin.x, xd, xb)
     /\ alpha' = pin.alpha
     /\ intersection_q_and_VLE' = pin.x
     /\ intersection_y' = pin.y
     /\ fsolve_converged' = pin.converged
     /\ pc' = "ValueError"
     /\ UNCHANGED <<inputs, reflux_ratio, reflux_ratio_is_array, x_upper, y_upper,
                    stripping_slope, b, stripping_condition, rectifying_condition,
                    seesaw_points_x, seesaw_points_y, x_start, y_start, vle_point,
                    number_of_stages>>

\* Lines 52-125: the design of a run that passes the feasibility check, up
\* to the first test of the stripping loop.  reflux_ratio is what
\* intersection_q_and_VLE makes it: a float when q == 1, and fsolve's
\* one-element array otherwise.
Design ==
  LET pin == Pinch(antoine, T, q, xf)
      ol  == OperatingLines(pin, xd, xb, q, xf, reflux_factor)
  IN /\ pc = "call"
     /\ ~Infeasible(pin.y, pin.x, xd, xb)
     /\ alpha' = pin.alpha
     /\ intersection_q_and_VLE' = pin.x
     /\ intersection_y' = pin.y
     /\ reflux_ratio' = ol.reflux_ratio
     /\ reflux_ratio_is_array' = (q # Scale)
     /\ x_upper' = ol.x_upper
     /\ y_upper' = ol.y_upper
     /\ stripping_slope' = ol.stripping_slope
     /\ b' = ol.b
     /\ stripping_condition' = TRUE
     /\ rectifying_condition' = FALSE
     /\ seesaw_points_x' = <<xb>>
     /\ seesaw_points_y' = <<xb>>
     /\ x_start' = xb
     /\ y_start' = xb
     /\ fsolve_converged' = (pin.converged /\ ol.converged)
     /\ pc' = "while_stripping"
     /\ UNCHANGED <<inputs, vle_point, number_of_stages>>

\* Lines 128-142: a stripping iteration whose equilibrium point is above
\* y_upper: the hand-over to the rectifying loop.
StrippingCross ==
  LET v == VLE(alpha, x_start)
      r == RectifyingX(reflux_ratio, xd, v, xf)
  IN /\ pc = "while_stripping"
     /\ stripping_condition
     /\ Len(seesaw_points_x) < MaxPoints
     /\ v > y_upper
     /\ vle_point' = v
     /\ stripping_condition' = FALSE
     /\ rectifying_condition' = TRUE
     /\ x_start' = r.x
     /\ y_start' = v
     /\ seesaw_points_x' = seesaw_points_x \o <<x_start, r.x>>
     /\ seesaw_points_y' = seesaw_points_y \o <<v, v>>
     /\ fsolve_converged' = (fsolve_converged /\ r.converged)
     /\ pc' = "while_rectifying"
     /\ UNCHANGED <<inputs, design, b, number_of_stages>>

\* Lines 128-135, 144-148: a stripping iteration that steps back to the
\* stripping line.
StrippingStep ==
  LET v  == VLE(alpha, x_start)
      nx == Div(v - b, stripping_slope)
      ny == Mul(stripping_slope, nx) + b
  IN /\ pc = "while_stripping"
     /\ stripping_condition
     /\ Len(seesaw_points_x) < MaxPoints
     /\ ~(v > y_upper)
     /\ vle_point' = v
     /\ x_start' = nx
     /\ y_start' = ny
     /\ seesaw_points_x' = seesaw_points_x \o <<x_start, nx>>
     /\ seesaw_points_y' = seesaw_points_y \o <<v, ny>>
     /\ UNCHANGED <<inputs, design, b, stripping_condition, rectifying_condition,
                    number_of_stages, fsolve_converged, pc>>

\* Lines 150-164: a rectifying iteration whose equilibrium point is above
\* xd: the point is replaced by xd, (xd, xd) is added and the loop ends.
RectifyingFinish ==
  LET v == VLE(alpha, x_start)
  IN /\ pc = "while_rectifying"
     /\ rectifying_condition
     /\ Len(seesaw_points_x) < MaxPoints
     /\ v > xd
     /\ vle_point' = v
     /\ rectifying_condition' = FALSE
     /\ seesaw_points_x' = seesaw_points_x \o <<x_start, xd>>
     /\ seesaw_points_y' = seesaw_points_y \o <<xd, xd>>
     /\ pc' = "return"
     /\ UNCHANGED <<inputs, design, b, stripping_condition, x_start, y_start,
                    number_of_stages, fsolve_converged>>

\* Lines 150-157, 166-171: a rectifying iteration that steps back to the
\* rectifying line.
RectifyingStep ==
  LET v == VLE(alpha, x_start)
      r == RectifyingX(reflux_ratio, xd, v, v)
  IN /\ pc = "while_rectifying"
     /\ rectifying_condition
     /\ Len(seesaw_points_x) < MaxPoints
     /\ ~(v > xd)
     /\ vle_point' = v
     /\ b' = RectIntercept(reflux_ratio, xd)
     /\ x_start' = r.x
     /\ seesaw_points_x' = seesaw_points_x \o <<x_start, r.x>>
     /\ seesaw_points_y' = seesaw_points_y \o <<v, v>>
     /\ fsolve_converged' = (fsolve_converged /\ r.converged)
     /\ UNCHANGED <<inputs, design, stripping_condition, rectifying_condition,
                    y_start, number_of_stages, pc>>

\* Lines 173-179: the stage count and the return.
Return ==
  /\ pc = "return"
  /\ number_of_stages' = NumberOfStages(Len(seesaw_points_x))
  /\ pc' = "returned"
  /\ UNCHANGED <<inputs, design, b, stripping_condition, rectifying_condition,
                 seesaw_points_x, seesaw_points_y, x_start, y_start, vle_point,
                 fsolve_converged>>

\* Lines 205-222 (called at line 249): reflux_ratio[0] and the table.
ShowDesignSummary ==
  /\ pc = "returned"
  /\ pc' = IF reflux_ratio_is_array THEN "summary_printed" ELSE "TypeError"
  /\ UNCHANGED <<inputs, design, b, stripping_condition, rectifying_condition,
                 seesaw_points_x, seesaw_points_y, x_start, y_start, vle_point,
                 number_of_stages, fsolve_converged>>

Next ==
  \/ RaiseInfeasible
  \/ Design
  \/ StrippingCross
  \/ StrippingStep
  \/ RectifyingFinish
  \/ RectifyingStep
  \/ Return
  \/ ShowDesignSummary

Spec == Init /\ [][Next]_vars

\* ------------------------------------------------------------- claims --
Running == pc \in {"while_stripping", "while_rectifying"}
Completed == pc \in {"returned", "summary_printed", "TypeError"}

\* xb, xf, xd in the open interval (0, 1) and ordered xb < xf < xd.
ValidInputs == 0 < xb /\ xb < xf /\ xf < xd /\ xd < Scale

\* What the rounding of a few operations can move a coordinate by.
RoundingSlack == Scale \div 200

\* The phase of the staircase, from the two flags of the source.
Phase ==
  IF stripping_condition THEN "STRIPPING"
  ELSE IF rectifying_condition THEN "RECTIFYING" ELSE "DONE"

\* The stripping loop is about to start an iteration from the x_start an
\* earlier iteration of it started from.  The loop body is a function of
\* x_start alone and the loop has no other exit than vle_point > y_upper,
\* so it repeats what followed that iteration, and never ends.
StrippingRepeats ==
  /\ pc = "while_stripping"
  /\ \E i \in 1..(Len(seesaw_points_x) - 1) :
       i % 2 = 1 /\ seesaw_points_x[i] = x_start

\* The same for the rectifying loop, whose iterations are the ones after
\* the iteration that recorded an equilibrium point above y_upper.
RectifyingRepeats ==
  /\ pc = "while_rectifying"
  /\ \E i \in 1..(Len(seesaw_points_x) - 1) :
       /\ i % 2 = 1
       /\ seesaw_points_x[i] = x_start
       /\ \E j \in 1..(i - 1) : j % 2 = 0 /\ seesaw_points_y[j] > y_upper

\* C1: for every design with xb < xf < xd that passes the feasibility
\* check, the staircase terminates: neither loop comes back to a state it
\* has been in (a loop that does never ends), and the run that returns
\* returns number_of_stages >= 1.
C1_FeasibleDesignTerminates ==
  (ValidInputs /\ pc \notin {"call", "ValueError"}) =>
    /\ ~StrippingRepeats
    /\ ~RectifyingRepeats
    /\ pc = "returned" => number_of_stages >= Scale

C3_InvalidInputRejected ==
  ~ValidInputs => pc \in {"call", "ValueError"}

\* C4: once a root-find has failed to converge the run is over: no stage
\* count, reflux ratio or stage sequence is returned.
C4_NonConvergenceFatal ==
  Completed => fsolve_converged

\* C5: the staircase takes at most a fixed number of steps on any input: no
\* loop is ever about to repeat, step for step, what it has already done.
C5_StepsBounded ==
  ~StrippingRepeats

\* C6: of two completed runs that differ only in the reflux factor, the one
\* with the larger factor has no more stages (stated for runs whose
\* root-finds converged and for factors above 1).
C6_StagesMonotoneInRefluxFactor ==
  pc = "returned" /\ fsolve_converged =>
    \A rf \in RefluxFactors :
      (Scale < rf /\ rf <= reflux_factor) =>
        LET r == RunWithRefluxFactor(rf)
        IN (r.done /\ r.converged) => number_of_stages <= r.stages

\* C7: the x list and the y list have the same odd length, every loop
\* iteration adds exactly two points to each, and on a completed run
\* number_of_stages is the integer (points - 1)/2 - 1 >= 0.
C7_StageCount ==
  /\ [](/\ Len(seesaw_points_x) = Len(seesaw_points_y)
        /\ pc \notin {"call", "ValueError"} => Len(seesaw_points_x) % 2 = 1
        /\ Completed =>
             /\ number_of_stages % Scale = 0
             /\ number_of_stages >= 0
             /\ 2 * (number_of_stages \div Scale + 1) + 1 = Len(seesaw_points_x))
  /\ [][Running =>
          /\ Len(seesaw_points_x') = Len(seesaw_points_x) + 2
          /\ Len(seesaw_points_y') = Len(seesaw_points_y) + 2]_vars

\* C7 witness: a completed run of several stripping and rectifying steps.
C7_Witness ==
  pc = "returned" /\ number_of_stages >= 3 * Scale /\ Len(seesaw_points_x) >= 9

\* C8: the phases go STRIPPING -> RECTIFYING -> DONE and never back; the
\* staircase leaves STRIPPING exactly at the first equilibrium point above
\* y_upper, and the next starting x is then the point of the rectifying
\* line at that height; it leaves RECTIFYING exactly at the first
\* equilibrium point above xd.
C8_PhaseOrder ==
  [][Running =>
       /\ Phase = "STRIPPING" =>
            /\ Phase' \in {"STRIPPING", "RECTIFYING"}
            /\ Phase' = "RECTIFYING" <=> vle_point' > y_upper
            /\ vle_point' = VLE(alpha, x_start)
            /\ Phase' = "RECTIFYING" =>
                 Abs(RectifyingLine(reflux_ratio, xd, x_start') - vle_point')
                   <= RoundingSlack
       /\ Phase = "RECTIFYING" =>
            /\ Phase' \in {"RECTIFYING", "DONE"}
            /\ Phase' = "DONE" <=> vle_point' > xd
            /\ vle_point' = VLE(alpha, x_start)
       /\ Phase # "DONE"]_vars

\* C9: on a completed run of a feasible design the stage sequence starts at
\* (xb, xb), ends at (xd, xd), and neither coordinate decreases from one
\* point to the next, so every point lies between xb and xd (stated for
\* runs whose root-finds converged and reflux factors above 1, and up to
\* RoundingSlack).
C9_StaircaseMonotone ==
  (pc = "returned" /\ ValidInputs /\ fsolve_converged /\ reflux_factor > Scale) =>
    LET n == Len(seesaw_points_x)
    IN /\ seesaw_points_x[1] = xb /\ seesaw_points_y[1] = xb
       /\ seesaw_points_x[n] = xd /\ seesaw_points_y[n] = xd
       /\ \A i \in 1..(n - 1) :
            /\ seesaw_points_x[i] <= seesaw_points_x[i + 1] + RoundingSlack
            /\ seesaw_points_y[i] <= seesaw_points_y[i + 1] + RoundingSlack
       /\ \A i \in 1..n :
            /\ seesaw_points_x[i] <= xd + RoundingSlack
            /\ seesaw_points_y[i] <= xd + RoundingSlack

\* C10: on every completed run reflux_ratio is a one-element array, and
\* show_design_summary takes reflux_ratio[0] and prints the table.
C10_SummaryRenders ==
  /\ pc = "returned" => reflux_ratio_is_array
  /\ pc # "TypeError"

====
